---- MODULE Spec2Model ----
(***************************************************************************)
(* Detection-and-acquisition engine of the Telegram gift monitor:          *)
(* GiftService (src/src/giftService.js) driven by the timer of index.js    *)
(* and by the controller's purchase buttons.                               *)
(*                                                                         *)
(* JavaScript runs each handler to its next await, so one action is one    *)
(* run-to-completion step: an invocation of checkAndPurchaseGifts up to    *)
(* the snapshot fetch, the continuation after the fetch, and the           *)
(* continuation of one purchaseGift task after one sendStarGift call or    *)
(* one backoff sleep has returned.                                         *)
(***************************************************************************)
EXTENDS Integers, Sequences, FiniteSets

\* ------------------------------------------------------------- bounds
NumGifts == 3
NumClients == 2
MaxQuantity == 2
MaxTime == 3
MaxFailures == 1

\* ---------------------------------------------------- program constants
\* const maxAttempts = 50 (purchaseGift)
MaxAttempts == 50
\* the literal 10000000 standing for a missing total
UnlimitedTotal == 10000000
\* config.checkIntervalMs, in clock units of the model
CheckIntervalMs == 1

\* -------------------------------------------------------------- gifts
GiftIds == 1..NumGifts

\* gift.id.toString(): the decimal digits of the id
RECURSIVE Digits(_)
Digits(n) ==
    IF n < 10 THEN <<n>> ELSE Digits(n \div 10) \o <<n % 10>>

IdToString(id) == Digits(id)

\* The catalogue the remote service serves.  availability is <<>> when the
\* gift has none, else <<[total, remains]>>; total 0 stands for every falsy
\* total (null, undefined, 0), which the code reads only through
\* `total || 10000000`.
CatalogTotal(id) ==
    CASE id % 4 = 1 -> 500
      [] id % 4 = 2 -> 1000
      [] id % 4 = 3 -> 0
      [] OTHER      -> 0

CatalogHasAvailability(id) == id % 4 # 0

Remains == {0, 1}

Gift(id, r) ==
    [ id |-> id,
      availability |->
          IF CatalogHasAvailability(id)
          THEN <<[total |-> CatalogTotal(id), remains |-> r]>>
          ELSE <<>> ]

\* the ids of 1..NumGifts in ascending and in descending order
RECURSIVE Ascending(_, _)
Ascending(S, from) ==
    IF from > NumGifts THEN <<>>
    ELSE (IF from \in S THEN <<from>> ELSE <<>>) \o Ascending(S, from + 1)

Reverse(s) == [k \in 1..Len(s) |-> s[Len(s) + 1 - k]]

\* getStarGiftOptions(): the snapshots the remote service may return
Snapshots ==
    { [k \in 1..Len(o) |-> Gift(o[k], r)] :
        o \in { Ascending(S, 1) : S \in SUBSET GiftIds }
              \cup { Reverse(Ascending(S, 1)) : S \in SUBSET GiftIds },
        r \in Remains }

SeqRange(s) == { s[k] : k \in 1..Len(s) }
SnapIds(s) == { IdToString(s[k].id) : k \in 1..Len(s) }

\* ---------------------------------------------------------------- errors
\* An error thrown by sendStarGift: its message as a sequence of pieces
\* (<<>>: no message); String.includes is a contiguous-piece search.
Errors ==
    { <<>>,
      <<"FLOOD_WAIT_3">>,
      <<"STARGIFT_", "USAGE_LIMITED">>,
      <<"PREMIUM", "_ACCOUNT_REQUIRED">>,
      <<"BALANCE_TOO_LOW">>,
      <<"Peer 1 ", "is not found in local cache">> }

nonRetryableErrors ==
    { "USAGE_LIMITED", "PREMIUM", "BALANCE_TOO_LOW", "is not found in local cache" }

Includes(message, text) == \E k \in 1..Len(message) : message[k] = text

\* mutant: every error is retried
ShouldStopNever(err) == FALSE

\* mutant: an error without a message ends the retries
ShouldStopWithoutMessage(err) ==
    IF err = <<>> THEN TRUE
    ELSE \E text \in nonRetryableErrors : Includes(err, text)

\* GiftService._shouldStopRetrying
ShouldStopRetrying(err) ==
    IF err = <<>> THEN FALSE
    ELSE \E text \in nonRetryableErrors : Includes(err, text)

\* ----------------------------------------------------------------- state
Dispatchers == {"auto", "manual"}

VARIABLES
    config,             \* the configuration object (src/config.js), read-only
    clients,            \* ClientManager.clients, read-only after initialisation
    clientsMap,         \* the clients that clientsMap and clientUserMap hold
    app,                \* Application: isRunning, checkInterval, the clients
                        \* already disconnected, process.exit called
    now,                \* Date.now()
    isCheckingGifts,    \* GiftService fields
    lastCheckTime,
    giftIdsCache,
    giftsMap,
    testGiftProcessed,
    pollPc,             \* where the poll cycle stands: idle, fetching, dispatching
    dispatch,           \* the running calls of purchaseGiftsWithAllClients
    task,               \* the purchaseGift task of each client in each of them
    failBudget,         \* how many more retryable errors the service returns
    activePolls,        \* history: cycles between the guards and the finally
    dropped,            \* history: an invocation returned at once in this cycle
    cycle,              \* history: the last fetch and what it found
    report,             \* history: what the last fetch reported and dispatched
    discoveries,        \* history: in how many cycles each id was reported
    request,            \* the controller's last purchase button and its reply
    notify              \* the notifyNewGift promise of each gift id

vars ==
    << config, clients, clientsMap, app, now, isCheckingGifts, lastCheckTime, giftIdsCache,
       giftsMap, testGiftProcessed, pollPc, dispatch, task, failBudget,
       activePolls, dropped, cycle, report, discoveries, request, notify >>

envVars == << config, clients, clientsMap, app >>

serviceVars == << giftIdsCache, giftsMap, testGiftProcessed >>
pollVars == << isCheckingGifts, lastCheckTime, pollPc, activePolls >>
histVars == << cycle, report, discoveries, notify >>

\* failBudget of a service that may refuse any number of calls
NoLimit == 0 - 1

\* the pool of the termination check
LiveClients == {1}

\* the values config.js can produce
MaxGiftSupplies == {100, 1000, UnlimitedTotal}
TestGiftIds == {<<>>, IdToString(1)}

Configs ==
    [ maxGiftSupply : MaxGiftSupplies,
      maxGiftsToBuy : 1..MaxQuantity,
      autoBuyEnabled : BOOLEAN,
      testGiftId : TestGiftIds,
      checkIntervalMs : {CheckIntervalMs} ]

IdleTask ==
    [ pc |-> "idle", i |-> 0, attempt |-> 0, successCount |-> 0,
      failureCount |-> 0, calls |-> 0, okCalls |-> 0, failedCalls |-> 0,
      terminalAt |-> 0, lostUnits |-> 0, summary |-> <<>> ]

IdleDispatch ==
    [ active |-> FALSE, gifts |-> <<>>, idx |-> 0, quantity |-> 0,
      called |-> <<>>, lost |-> 0 ]

NoCycle ==
    [ kind |-> "none", prevKind |-> "none", snap |-> <<>>, rel |-> "first",
      added |-> <<>>, processedBefore |-> FALSE ]

NoReport == [ discovered |-> <<>>, dispatched |-> <<>> ]

IdStrings == { IdToString(id) : id \in GiftIds }

\* no purchase button pressed yet
NoRequest ==
    [ giftId |-> <<>>, quantity |-> 0, known |-> FALSE,
      outcome |-> "none", reply |-> "none" ]

\* the GiftService constructor, with the clients initialised
\* the application after start(): running, its interval timer set
Started ==
    [ isRunning |-> TRUE, checkInterval |-> TRUE, disconnected |-> {},
      exited |-> FALSE ]

InitService ==
    /\ app = Started
    /\ isCheckingGifts = FALSE
    /\ lastCheckTime = 0
    /\ giftIdsCache = {}
    /\ giftsMap = <<>>
    /\ testGiftProcessed = FALSE
    /\ pollPc = "idle"
    /\ dispatch = [d \in Dispatchers |-> IdleDispatch]
    /\ task = [d \in Dispatchers |-> [c \in clients |-> IdleTask]]
    /\ activePolls = 0
    /\ dropped = FALSE
    /\ cycle = NoCycle
    /\ report = NoReport
    /\ discoveries = [id \in IdStrings |-> 0]
    /\ request = NoRequest
    /\ notify = [id \in IdStrings |-> "none"]

Init ==
    /\ config \in Configs
    /\ clients = 1..NumClients
    /\ clientsMap = clients
    /\ now = CheckIntervalMs
    /\ failBudget = MaxFailures
    /\ InitService

\* ------------------------------------------------------------- selection
\* gift.availability.total || 10000000
TotalOrDefault(gift) ==
    IF gift.availability[1].total = 0 THEN UnlimitedTotal
    ELSE gift.availability[1].total

\* mutant: the ceiling itself is excluded
IsLowSupplyStrict(gift) ==
    /\ gift.availability # <<>>
    /\ config.maxGiftSupply > TotalOrDefault(gift)

\* the filter of lowSupplyGifts
IsLowSupply(gift) ==
    /\ gift.availability # <<>>
    /\ config.maxGiftSupply >= TotalOrDefault(gift)

\* Array.prototype.sort with (a, b) => total(a) - total(b): stable, ascending
RECURSIVE InsertByTotal(_, _)
InsertByTotal(sorted, gift) ==
    IF sorted = <<>> THEN <<gift>>
    ELSE IF TotalOrDefault(gift) < TotalOrDefault(Head(sorted))
         THEN <<gift>> \o sorted
         ELSE <<Head(sorted)>> \o InsertByTotal(Tail(sorted), gift)

RECURSIVE SortUpTo(_, _)
SortUpTo(s, n) ==
    IF n = 0 THEN <<>> ELSE InsertByTotal(SortUpTo(s, n - 1), s[n])

\* mutant: the list is left in snapshot order
SortByTotalNone(s) == s

SortByTotal(s) == SortUpTo(s, Len(s))

\* lowSupplyGifts
LowSupplyGifts(newGifts) == SortByTotal(SelectSeq(newGifts, IsLowSupply))

\* mutant: the processed flag is not consulted
IsNewGiftForcedAlways(gift) ==
    \/ IdToString(gift.id) \notin giftIdsCache
    \/ /\ config.testGiftId # <<>>
       /\ IdToString(gift.id) = config.testGiftId

\* mutant: every gift of the snapshot is taken as new
IsNewGiftAlways(gift) == TRUE

\* the filter of newGifts
IsNewGift(gift) ==
    \/ IdToString(gift.id) \notin giftIdsCache
    \/ /\ config.testGiftId # <<>>
       /\ IdToString(gift.id) = config.testGiftId
       /\ ~testGiftProcessed

NewGifts(snap) == SelectSeq(snap, IsNewGift)

\* mutant: the set is rebuilt from the list
CacheReplace(cache, gifts) == SnapIds(gifts)

\* mutant: only the first run adds to the set
CacheAddBaselineOnly(cache, gifts) ==
    IF cache = {} THEN cache \cup SnapIds(gifts) ELSE cache

\* giftIdsCache after add(giftId) for every gift of the list
CacheAdd(cache, gifts) == cache \cup SnapIds(gifts)

\* giftsMap after set(giftId, gift) for every gift of the list, in order
RECURSIVE SetAll(_, _)
SetAll(map, gifts) ==
    IF gifts = <<>> THEN map
    ELSE LET g == Head(gifts)
             key == IdToString(g.id)
         IN  SetAll([k \in DOMAIN map \cup {key} |->
                        IF k = key THEN g ELSE map[k]], Tail(gifts))

\* ------------------------------------------------------ purchaseGift
\* quantity || this.config.maxGiftsToBuy || 1
MaxGiftsToBuy(quantity) ==
    IF quantity # 0 THEN quantity
    ELSE IF config.maxGiftsToBuy # 0 THEN config.maxGiftsToBuy ELSE 1

\* mutant: the calls of the first two units are issued together
FirstCallTwoAtOnce ==
    [ IdleTask EXCEPT !.pc = "calling", !.attempt = 1, !.calls = 2 ]

\* purchaseGift up to its first await: the first sendStarGift call is out
FirstCall ==
    [ IdleTask EXCEPT !.pc = "calling", !.attempt = 1, !.calls = 1 ]

\* purchaseGift when getUserInfo or getTargetPeerId throws: the catch block
\* logs, and the task ends without a call and without a summary
Threw == [ IdleTask EXCEPT !.pc = "done" ]

\* mutant: the lookups are not checked
StartTaskUnchecked(c) == FirstCall

\* purchaseGift(client, ...) up to its first await
StartTask(c) == IF c \in clientsMap THEN FirstCall ELSE Threw

\* mutant: the summary is logged only when no unit failed
FinishedSilentOnFailure(t) ==
    [ t EXCEPT !.pc = "done",
               !.summary = IF t.failureCount > 0 THEN <<>>
                           ELSE <<[successCount |-> t.successCount,
                                   failureCount |-> t.failureCount]>> ]

\* the summary log line, and the end of the task
Finished(t) ==
    [ t EXCEPT !.pc = "done",
               !.summary = <<[successCount |-> t.successCount,
                              failureCount |-> t.failureCount]>> ]

\* mutant: the loop breaks before it counts the failure
AfterAttemptBreakFirst(t, quantity, success, shouldStopRetrying) ==
    LET counted == IF success
                   THEN [t EXCEPT !.successCount = @ + 1]
                   ELSE [t EXCEPT !.failureCount = @ + 1]
    IN  IF ~success /\ shouldStopRetrying
        THEN Finished([t EXCEPT !.i = t.i + 1])
        ELSE IF t.i + 1 >= quantity
             THEN Finished([counted EXCEPT !.i = t.i + 1])
             ELSE [counted EXCEPT !.i = t.i + 1, !.pc = "calling",
                                  !.attempt = 1, !.calls = @ + 1]

\* mutant: the loop test is off by one
AfterAttemptOneMore(t, quantity, success, shouldStopRetrying) ==
    LET counted == IF success
                   THEN [t EXCEPT !.successCount = @ + 1]
                   ELSE [t EXCEPT !.failureCount = @ + 1]
    IN  IF (~success /\ shouldStopRetrying) \/ t.i + 1 > quantity
        THEN Finished([counted EXCEPT !.i = t.i + 1])
        ELSE [counted EXCEPT !.i = t.i + 1, !.pc = "calling",
                             !.attempt = 1, !.calls = @ + 1]

\* the body of the for loop after _attemptGiftPurchase has returned `result`
AfterAttempt(t, quantity, success, shouldStopRetrying) ==
    LET counted == IF success
                   THEN [t EXCEPT !.successCount = @ + 1]
                   ELSE [t EXCEPT !.failureCount = @ + 1]
    IN  IF (~success /\ shouldStopRetrying) \/ t.i + 1 >= quantity
        THEN Finished([counted EXCEPT !.i = t.i + 1])
        ELSE [counted EXCEPT !.i = t.i + 1, !.pc = "calling",
                             !.attempt = 1, !.calls = @ + 1]

\* mutant: the loop ends at the first success
OnCallSuccessStops(t, quantity) ==
    Finished([t EXCEPT !.okCalls = @ + 1, !.successCount = @ + 1,
                       !.i = t.i + 1])

\* _attemptGiftPurchase after sendStarGift has resolved
OnCallSuccess(t, quantity) ==
    AfterAttempt([t EXCEPT !.okCalls = @ + 1], quantity, TRUE, FALSE)

\* mutant: the retry test is off by one
OnCallErrorOneMore(t, quantity, err) ==
    LET failed == [t EXCEPT !.failedCalls = @ + 1]
    IN  IF ShouldStopRetrying(err)
        THEN AfterAttempt(failed, quantity, FALSE, TRUE)
        ELSE IF t.attempt <= MaxAttempts
             THEN [failed EXCEPT !.pc = "backoff"]
             ELSE AfterAttempt(failed, quantity, FALSE, FALSE)

\* _attemptGiftPurchase after sendStarGift has thrown err
OnCallError(t, quantity, err) ==
    LET failed == [t EXCEPT !.failedCalls = @ + 1]
    IN  IF ShouldStopRetrying(err)
        THEN AfterAttempt(failed, quantity, FALSE, TRUE)
        ELSE IF t.attempt < MaxAttempts
             THEN [failed EXCEPT !.pc = "backoff"]
             ELSE AfterAttempt(failed, quantity, FALSE, FALSE)

\* mutant: the next turn of the loop does not count the attempt
OnBackoffDoneSameAttempt(t) ==
    [ t EXCEPT !.pc = "calling", !.calls = @ + 1 ]

\* _attemptGiftPurchase after the 100 ms sleep: the next turn of the while loop
OnBackoffDone(t) ==
    [ t EXCEPT !.pc = "calling", !.attempt = @ + 1, !.calls = @ + 1 ]

\* ------------------------------------------- purchaseGiftsWithAllClients
\* the first turn of the loop over gifts: every client's purchaseGift has run
\* to its first sendStarGift call, and Promise.allSettled is awaited
StartedDispatch(gifts, quantity) ==
    [ active |-> TRUE, gifts |-> gifts, idx |-> 1, quantity |-> quantity,
      called |-> <<gifts[1].id>>, lost |-> 0 ]

\* mutant: the tasks are not awaited
NotAwaited(d) == TRUE

\* mutant: the first task to settle resolves the wait
AnySettled(d) == \E c \in clients : task[d][c].pc = "done"

\* await Promise.allSettled(purchasePromises)
AllSettled(d) == \A c \in clients : task[d][c].pc = "done"

\* ------------------------------------------------ checkAndPurchaseGifts
\* mutant: the guard flag is not consulted
InFlightNever == FALSE

\* the test `if (this.isCheckingGifts) return`
InFlight == isCheckingGifts

\* mutant: the interval test never holds an invocation back
TooSoonNever == FALSE

\* the test `if (now - this.lastCheckTime < this.config.checkIntervalMs) return`
TooSoon == now - lastCheckTime < config.checkIntervalMs

\* the clock advances
Tick ==
    /\ now < MaxTime
    /\ now' = now + 1
    /\ UNCHANGED << envVars, serviceVars, pollVars, dispatch, task,
                    failBudget, dropped, histVars, request >>

\* mutant: the early return runs the finally block of the cycle
PollSkipInFlightReleases ==
    /\ InFlight
    /\ dropped' = TRUE
    /\ isCheckingGifts' = FALSE
    /\ UNCHANGED << envVars, now, serviceVars, lastCheckTime, pollPc,
                    activePolls, dispatch, task, failBudget, histVars, request >>

\* an invocation while a cycle is in flight returns at once
PollSkipInFlight ==
    /\ InFlight
    /\ dropped' = TRUE
    /\ UNCHANGED << envVars, now, serviceVars, pollVars, dispatch,
                    task, failBudget, histVars, request >>

\* an invocation sooner than the interval after the last start returns at once
PollSkipInterval ==
    /\ ~InFlight
    /\ TooSoon
    /\ UNCHANGED vars

\* an invocation that passes both guards: up to await getStarGiftOptions()
PollStart ==
    /\ ~InFlight
    /\ ~TooSoon
    /\ lastCheckTime' = now
    /\ isCheckingGifts' = TRUE
    /\ pollPc' = "fetching"
    /\ activePolls' = activePolls + 1
    /\ dropped' = FALSE
    /\ UNCHANGED << envVars, now, serviceVars, dispatch, task,
                    failBudget, histVars, request >>

\* mutant: the flag is not reset
ReleaseGuardFlagKept ==
    /\ pollPc' = "idle"
    /\ activePolls' = activePolls - 1
    /\ UNCHANGED << isCheckingGifts, lastCheckTime >>

\* the finally block
ReleaseGuard ==
    /\ isCheckingGifts' = FALSE
    /\ pollPc' = "idle"
    /\ activePolls' = activePolls - 1
    /\ UNCHANGED lastCheckTime

\* mutant: the catch block forgets what the service has seen
FetchThrowsResetsCache ==
    /\ pollPc = "fetching"
    /\ ReleaseGuard
    /\ cycle' = [NoCycle EXCEPT !.kind = "failed", !.prevKind = cycle.kind]
    /\ report' = NoReport
    /\ giftIdsCache' = {}
    /\ giftsMap' = <<>>
    /\ UNCHANGED << envVars, now, testGiftProcessed, dispatch, task,
                    failBudget, dropped, discoveries, request, notify >>

\* getStarGiftOptions() throws: catch, log, finally
FetchThrows ==
    /\ pollPc = "fetching"
    /\ ReleaseGuard
    /\ cycle' = [NoCycle EXCEPT !.kind = "failed", !.prevKind = cycle.kind]
    /\ report' = NoReport
    /\ UNCHANGED << envVars, now, serviceVars, dispatch, task,
                    failBudget, dropped, discoveries, request, notify >>

\* how the snapshot relates to the one of the cycle before (history only)
Relation(snap) ==
    IF cycle.kind \notin {"baseline", "incremental"} THEN "first"
    ELSE IF snap = cycle.snap THEN "same"
    ELSE IF /\ Len(snap) = Len(cycle.snap) + 1
            /\ SeqRange(cycle.snap) \subseteq SeqRange(snap)
            /\ SnapIds(cycle.snap) # SnapIds(snap)
         THEN "plusOne"
         ELSE "other"

Added(snap) ==
    IF Relation(snap) = "plusOne"
    THEN LET x == CHOOSE g \in SeqRange(snap) : g \notin SeqRange(cycle.snap)
         IN  <<IdToString(x.id)>>
    ELSE <<>>

\* mutant: the first run caches the ids but not the gift objects
FirstRunIdsOnly(snap) ==
    /\ giftIdsCache' = CacheAdd(giftIdsCache, snap)
    /\ ReleaseGuard
    /\ report' = NoReport
    /\ UNCHANGED << giftsMap, testGiftProcessed, dispatch, task,
                    discoveries, notify >>

\* the branch `if (isFirstRun)`
FirstRun(snap) ==
    /\ giftIdsCache' = CacheAdd(giftIdsCache, snap)
    /\ giftsMap' = SetAll(giftsMap, snap)
    /\ ReleaseGuard
    /\ report' = NoReport
    /\ UNCHANGED << testGiftProcessed, dispatch, task, discoveries, notify >>

\* mutant: the flag is never set
MarkTestGiftNever(newGifts) == testGiftProcessed

\* testGiftProcessed after the test `newGifts.some(id === testGiftId)`
MarkTestGift(newGifts) ==
    IF /\ config.testGiftId # <<>>
       /\ \E k \in 1..Len(newGifts) :
              IdToString(newGifts[k].id) = config.testGiftId
    THEN TRUE ELSE testGiftProcessed

\* mutant: the purchase does not ask for auto-buy
SelectedForPurchaseAlways(newGifts) == LowSupplyGifts(newGifts)

\* the gifts the poll hands to purchaseGiftsWithAllClients
SelectedForPurchase(newGifts) ==
    IF config.autoBuyEnabled /\ Len(newGifts) > 0
    THEN LowSupplyGifts(newGifts) ELSE <<>>

\* mutant: only the gifts that will be bought are announced
DiscoveredSelectedOnly(newGifts) == SelectedForPurchase(newGifts)

\* the gifts the loop over newGifts logs as found and notifies
Discovered(newGifts) == newGifts

\* the branch `else`: the new gifts, their discovery and their purchase
LaterRun(snap) ==
    LET newGifts == NewGifts(snap)
        lowSupplyGifts == SelectedForPurchase(newGifts)
        found == Discovered(newGifts)
    IN  /\ testGiftProcessed' = MarkTestGift(newGifts)
        /\ giftIdsCache' = CacheAdd(giftIdsCache, newGifts)
        /\ giftsMap' = SetAll(giftsMap, newGifts)
        /\ discoveries' =
              [ id \in IdStrings |->
                  IF id \in SnapIds(found)
                  THEN discoveries[id] + 1 ELSE discoveries[id] ]
        /\ notify' =
              [ id \in IdStrings |->
                  IF id \in SnapIds(found) THEN "pending" ELSE notify[id] ]
        /\ report' = [ discovered |-> found, dispatched |-> lowSupplyGifts ]
        /\ IF Len(lowSupplyGifts) > 0
           THEN /\ dispatch' = [dispatch EXCEPT
                                  !["auto"] = StartedDispatch(lowSupplyGifts, 0)]
                /\ task' = [task EXCEPT
                              !["auto"] = [c \in clients |-> StartTask(c)]]
                /\ pollPc' = "dispatching"
                /\ UNCHANGED << isCheckingGifts, lastCheckTime, activePolls >>
           ELSE /\ ReleaseGuard
                /\ UNCHANGED << dispatch, task >>

\* the promise of notifyNewGift(gift) settles after the stickers were sent
NotifyDone(id) ==
    /\ notify[id] = "pending"
    /\ notify' = [notify EXCEPT ![id] = "sent"]
    /\ UNCHANGED << envVars, now, serviceVars, pollVars, dispatch, task,
                    failBudget, dropped, cycle, report, discoveries, request >>

\* mutant: the rejection is thrown into the poll cycle, which gives up its
\* dispatch and ends
NotifyFailsAbortsPoll(id) ==
    /\ notify[id] = "pending"
    /\ notify' = [notify EXCEPT ![id] = "failed"]
    /\ IF pollPc = "dispatching"
       THEN /\ dispatch' = [dispatch EXCEPT !["auto"].active = FALSE]
            /\ ReleaseGuard
       ELSE UNCHANGED << dispatch, pollVars >>
    /\ UNCHANGED << envVars, now, serviceVars, task,
                    failBudget, dropped, cycle, report, discoveries, request >>

\* sending fails: the error is logged by notifyNewGift's own handlers, or by
\* the .catch attached where the poll started the promise
NotifyFails(id) ==
    /\ notify[id] = "pending"
    /\ notify' = [notify EXCEPT ![id] = "failed"]
    /\ UNCHANGED << envVars, now, serviceVars, pollVars, dispatch, task,
                    failBudget, dropped, cycle, report, discoveries, request >>

\* mutant: no run is the first
IsFirstRunNever == FALSE

\* the size test of isFirstRun
IsFirstRun == Cardinality(giftIdsCache) = 0

\* getStarGiftOptions() returns snap: the rest of the try block
FetchReturns(snap) ==
    /\ pollPc = "fetching"
    /\ IF IsFirstRun THEN FirstRun(snap) ELSE LaterRun(snap)
    /\ cycle' = [ kind |-> IF giftIdsCache = {} THEN "baseline"
                                                ELSE "incremental",
                  prevKind |-> cycle.kind, snap |-> snap,
                  rel |-> Relation(snap), added |-> Added(snap),
                  processedBefore |-> testGiftProcessed ]
    /\ UNCHANGED << envVars, now, failBudget, dropped, request >>

\* --------------------------------------------------- the clients' calls
Quantity(d) == MaxGiftsToBuy(dispatch[d].quantity)

\* the terminal markers as the specification lists them (history only)
IsTerminalMessage(err) ==
    \/ Includes(err, "USAGE_LIMITED")
    \/ Includes(err, "PREMIUM")
    \/ Includes(err, "BALANCE_TOO_LOW")
    \/ Includes(err, "is not found in local cache")

\* sendStarGift of client c resolves
CallSucceeds(d, c) ==
    /\ task[d][c].pc = "calling"
    /\ task' = [task EXCEPT ![d][c] = OnCallSuccess(@, Quantity(d))]
    /\ UNCHANGED << envVars, now, serviceVars, pollVars, dispatch,
                    failBudget, dropped, histVars, request >>

\* mutant: a terminal error of one client ends the task of every client
CallFailsStopsAll(d, c, err) ==
    /\ task[d][c].pc = "calling"
    /\ IsTerminalMessage(err) \/ failBudget # 0
    /\ failBudget' = IF IsTerminalMessage(err) \/ failBudget = NoLimit
                     THEN failBudget ELSE failBudget - 1
    /\ task' = [task EXCEPT ![d] =
                  [ k \in clients |->
                      IF k = c THEN OnCallError(task[d][k], Quantity(d), err)
                      ELSE IF ShouldStopRetrying(err) /\ task[d][k].pc # "done"
                           THEN Finished(task[d][k])
                           ELSE task[d][k] ]]
    /\ UNCHANGED << envVars, now, serviceVars, pollVars, dispatch,
                    dropped, histVars, request >>

\* sendStarGift of client c throws err
CallFails(d, c, err) ==
    /\ task[d][c].pc = "calling"
    /\ IsTerminalMessage(err) \/ failBudget # 0
    /\ failBudget' = IF IsTerminalMessage(err) \/ failBudget = NoLimit
                     THEN failBudget ELSE failBudget - 1
    /\ task' = [task EXCEPT ![d][c] =
                  [ OnCallError(@, Quantity(d), err) EXCEPT
                      !.terminalAt = IF IsTerminalMessage(err) /\ @ = 0
                                     THEN task[d][c].calls ELSE @,
                      !.lostUnits = IF \/ IsTerminalMessage(err)
                                       \/ task[d][c].attempt >= MaxAttempts
                                    THEN @ + 1 ELSE @ ]]
    /\ UNCHANGED << envVars, now, serviceVars, pollVars, dispatch,
                    dropped, histVars, request >>

\* the 100 ms sleep of client c ends
BackoffDone(d, c) ==
    /\ task[d][c].pc = "backoff"
    /\ task' = [task EXCEPT ![d][c] = OnBackoffDone(@)]
    /\ UNCHANGED << envVars, now, serviceVars, pollVars, dispatch,
                    failBudget, dropped, histVars, request >>

\* the controller's handler after purchaseGiftsWithAllClients has returned:
\* ctx.reply("Started purchase of ...")
Replied(r) == [ r EXCEPT !.outcome = "returned", !.reply = "started" ]

\* Promise.allSettled resolves: the next gift of the list, or the return
\* (and, for the poll's own dispatch, the finally of the poll cycle; for the
\* controller's, its reply)
DispatchAdvance(d) ==
    /\ dispatch[d].active
    /\ AllSettled(d)
    /\ IF dispatch[d].idx < Len(dispatch[d].gifts)
       THEN /\ dispatch' = [dispatch EXCEPT
                  ![d].idx = @ + 1,
                  ![d].called = Append(@, dispatch[d].gifts[dispatch[d].idx + 1].id),
                  ![d].lost = @ + Cardinality(
                      { c \in clients : task[d][c].failureCount > 0 })]
            /\ task' = [task EXCEPT ![d] = [c \in clients |-> StartTask(c)]]
            /\ UNCHANGED << pollVars, request >>
       ELSE /\ dispatch' = [dispatch EXCEPT ![d].active = FALSE]
            /\ UNCHANGED task
            /\ IF d = "auto" THEN ReleaseGuard ELSE UNCHANGED pollVars
            /\ request' = IF d = "manual" /\ request.outcome = "pending"
                          THEN Replied(request) ELSE request
    /\ UNCHANGED << envVars, now, serviceVars, failBudget,
                    dropped, histVars >>

\* mutant: an id that is not cached is bought as a gift of that id
ResolveGiftsUncached(giftsOrGiftId) ==
    IF giftsOrGiftId.isArray THEN giftsOrGiftId.gifts
    ELSE IF giftsOrGiftId.giftId \in DOMAIN giftsMap
         THEN <<giftsMap[giftsOrGiftId.giftId]>>
         ELSE <<[id |-> 0, availability |-> <<>>]>>

\* the gifts purchaseGiftsWithAllClients works on: the array it is given, or
\* the cached gift of the id it is given (none when the id is not cached)
ResolveGifts(giftsOrGiftId) ==
    IF giftsOrGiftId.isArray THEN giftsOrGiftId.gifts
    ELSE IF giftsOrGiftId.giftId \in DOMAIN giftsMap
         THEN <<giftsMap[giftsOrGiftId.giftId]>>
         ELSE <<>>

\* mutant: the id the dispatcher is given is entered into the known ids
PurchaseGiftsWithAllClientsCaching(giftsOrGiftId, quantity) ==
    /\ ~dispatch["manual"].active
    /\ LET gifts == ResolveGifts(giftsOrGiftId)
       IN  IF Len(gifts) = 0
           THEN UNCHANGED << dispatch, task >>
           ELSE /\ dispatch' = [dispatch EXCEPT !["manual"] =
                                  StartedDispatch(gifts, quantity)]
                /\ task' = [task EXCEPT
                              !["manual"] = [c \in clients |-> StartTask(c)]]
    /\ giftIdsCache' = IF giftsOrGiftId.isArray THEN giftIdsCache
                       ELSE giftIdsCache \cup {giftsOrGiftId.giftId}
    /\ UNCHANGED << envVars, now, giftsMap, testGiftProcessed, pollVars,
                    failBudget, dropped, histVars >>

\* purchaseGiftsWithAllClients(giftsOrGiftId, quantity) called from outside
\* the poll cycle, up to its first await
PurchaseGiftsWithAllClients(giftsOrGiftId, quantity) ==
    /\ ~dispatch["manual"].active
    /\ LET gifts == ResolveGifts(giftsOrGiftId)
       IN  IF Len(gifts) = 0
           THEN UNCHANGED << dispatch, task >>
           ELSE /\ dispatch' = [dispatch EXCEPT !["manual"] =
                                  StartedDispatch(gifts, quantity)]
                /\ task' = [task EXCEPT
                              !["manual"] = [c \in clients |-> StartTask(c)]]
    /\ UNCHANGED << envVars, now, serviceVars, pollVars, failBudget,
                    dropped, histVars >>

\* the controller's purchase button, purchase:<giftId>:<quantity>: the
\* handler awaits purchaseGiftsWithAllClients and then replies
ManualPurchase(giftId, quantity) ==
    LET arg == [isArray |-> FALSE, giftId |-> giftId, gifts |-> <<>>]
        pressed == [ giftId |-> giftId, quantity |-> quantity,
                     known |-> giftId \in DOMAIN giftsMap,
                     outcome |-> "pending", reply |-> "none" ]
    IN  /\ PurchaseGiftsWithAllClients(arg, quantity)
        /\ request' = IF Len(ResolveGifts(arg)) = 0
                      THEN Replied(pressed) ELSE pressed

\* a direct call with an array of gift objects
ArrayPurchase(gifts, quantity) ==
    /\ PurchaseGiftsWithAllClients(
           [isArray |-> TRUE, giftId |-> <<>>, gifts |-> gifts], quantity)
    /\ UNCHANGED request

\* the interval callback runs: the timer is set and isRunning holds
TimerFires == app.checkInterval /\ app.isRunning /\ ~app.exited

\* stop() up to `await this.controller.stop()`
Stop ==
    /\ app.isRunning
    /\ app' = [app EXCEPT !.isRunning = FALSE, !.checkInterval = FALSE]
    /\ UNCHANGED << config, clients, clientsMap, now, serviceVars, pollVars,
                    dispatch, task, failBudget, dropped, histVars, request >>

\* disconnectAll(): `await client.disconnect()` of the next client returns
DisconnectNext ==
    /\ ~app.isRunning
    /\ ~app.exited
    /\ app.disconnected # clients
    /\ LET c == CHOOSE k \in clients \ app.disconnected :
                    \A j \in clients \ app.disconnected : k <= j
       IN  app' = [app EXCEPT !.disconnected = @ \cup {c}]
    /\ UNCHANGED << config, clients, clientsMap, now, serviceVars, pollVars,
                    dispatch, task, failBudget, dropped, histVars, request >>

\* the signal handler after `await app.stop()`: process.exit(0)
Exit ==
    /\ ~app.isRunning
    /\ ~app.exited
    /\ app.disconnected = clients
    /\ app' = [app EXCEPT !.exited = TRUE]
    /\ UNCHANGED << config, clients, clientsMap, now, serviceVars, pollVars,
                    dispatch, task, failBudget, dropped, histVars, request >>


Next ==
    \/ Tick
    \/ PollSkipInFlight
    \/ PollSkipInterval
    \/ PollStart
    \/ FetchThrows
    \/ \E snap \in Snapshots : FetchReturns(snap)
    \/ \E d \in Dispatchers, c \in clients : CallSucceeds(d, c)
    \/ \E d \in Dispatchers, c \in clients, err \in Errors : CallFails(d, c, err)
    \/ \E d \in Dispatchers, c \in clients : BackoffDone(d, c)
    \/ \E d \in Dispatchers : DispatchAdvance(d)
    \/ \E giftId \in { IdToString(id) : id \in 1..(NumGifts + 1) },
          quantity \in 0..MaxQuantity : ManualPurchase(giftId, quantity)
    \/ \E gifts \in { <<Gift(1, 0)>> } : ArrayPurchase(gifts, 0)
    \/ \E id \in IdStrings : NotifyDone(id)
    \/ \E id \in IdStrings : NotifyFails(id)
    \/ Stop
    \/ DisconnectNext
    \/ Exit

Spec == Init /\ [][Next]_vars

\* the detection engine alone: no purchase button, a service that never
\* refuses a purchase
NextDetect ==
    \/ Tick
    \/ PollSkipInFlight
    \/ PollSkipInterval
    \/ PollStart
    \/ FetchThrows
    \/ \E snap \in Snapshots : FetchReturns(snap)
    \/ \E d \in Dispatchers, c \in clients : CallSucceeds(d, c)
    \/ \E d \in Dispatchers : DispatchAdvance(d)

SpecDetect == Init /\ [][NextDetect]_vars

\* the dispatcher alone: one call of purchaseGiftsWithAllClients at a time on
\* a pool of one client, against a service that may refuse every call
InitAcquire ==
    /\ config \in { c \in Configs : /\ c.maxGiftSupply = 1000
                                     /\ c.autoBuyEnabled
                                     /\ c.testGiftId = <<>> }
    /\ clients = {1}
    /\ clientsMap = clients
    /\ now = CheckIntervalMs
    /\ failBudget = NoLimit
    /\ InitService

AcquireGifts == { <<Gift(1, 0)>> }

NextAcquire ==
    \/ \E gifts \in AcquireGifts, quantity \in 0..MaxQuantity :
          ArrayPurchase(gifts, quantity)
    \/ \E d \in Dispatchers, c \in clients : CallSucceeds(d, c)
    \/ \E d \in Dispatchers, c \in clients, err \in Errors : CallFails(d, c, err)
    \/ \E d \in Dispatchers, c \in clients : BackoffDone(d, c)
    \/ \E d \in Dispatchers : DispatchAdvance(d)

SpecAcquire == InitAcquire /\ [][NextAcquire]_vars

\* the dispatcher on the whole pool: one call of purchaseGiftsWithAllClients
\* at a time with a list of two gifts and one unit per client, against a
\* service that may refuse every call
InitPool ==
    /\ config \in { c \in Configs : /\ c.maxGiftSupply = 1000
                                     /\ c.maxGiftsToBuy = 1
                                     /\ c.autoBuyEnabled
                                     /\ c.testGiftId = <<>> }
    /\ clients = 1..NumClients
    /\ clientsMap = clients
    /\ now = CheckIntervalMs
    /\ failBudget = NoLimit
    /\ InitService

PoolGifts == { <<Gift(1, 0), Gift(2, 0)>> }

NextPool ==
    \/ \E gifts \in PoolGifts : ArrayPurchase(gifts, 0)
    \/ \E d \in Dispatchers, c \in clients : CallSucceeds(d, c)
    \/ \E d \in Dispatchers, c \in clients, err \in Errors : CallFails(d, c, err)
    \/ \E d \in Dispatchers, c \in clients : BackoffDone(d, c)
    \/ \E d \in Dispatchers : DispatchAdvance(d)

SpecPool == InitPool /\ [][NextPool]_vars

\* a client manager whose lookups know only some of the clients it lists
InitUnmapped ==
    /\ config \in { c \in Configs : /\ c.maxGiftSupply = 1000
                                     /\ c.maxGiftsToBuy = 1
                                     /\ c.autoBuyEnabled
                                     /\ c.testGiftId = <<>> }
    /\ clients = 1..NumClients
    /\ clientsMap \in SUBSET clients
    /\ now = CheckIntervalMs
    /\ failBudget = MaxFailures
    /\ InitService

NextUnmapped ==
    \/ \E gifts \in PoolGifts, quantity \in 0..MaxQuantity :
          ArrayPurchase(gifts, quantity)
    \/ \E d \in Dispatchers, c \in clients : CallSucceeds(d, c)
    \/ \E d \in Dispatchers, c \in clients, err \in Errors : CallFails(d, c, err)
    \/ \E d \in Dispatchers, c \in clients : BackoffDone(d, c)
    \/ \E d \in Dispatchers : DispatchAdvance(d)

SpecUnmapped == InitUnmapped /\ [][NextUnmapped]_vars

\* the timer and the purchase buttons under one configuration, with a
\* service that never refuses a purchase
InitControl ==
    /\ config \in { c \in Configs : /\ c.maxGiftSupply = 1000
                                     /\ c.maxGiftsToBuy \in 1..MaxQuantity
                                     /\ c.autoBuyEnabled
                                     /\ c.testGiftId = <<>> }
    /\ clients = 1..NumClients
    /\ clientsMap = clients
    /\ now = CheckIntervalMs
    /\ failBudget = MaxFailures
    /\ InitService

\* the gift ids of the buttons: a button of an earlier run of the process
\* may name a gift this run has not seen
ButtonIds == { IdToString(1), IdToString(NumGifts + 1) }

\* the snapshots that list the catalogue in ascending order of id, sold out
ControlSnapshots ==
    { [k \in 1..Len(o) |-> Gift(o[k], 0)] :
        o \in { Ascending(S, 1) : S \in SUBSET GiftIds } }

NextControl ==
    \/ Tick
    \/ PollSkipInFlight
    \/ PollSkipInterval
    \/ PollStart
    \/ FetchThrows
    \/ \E snap \in ControlSnapshots : FetchReturns(snap)
    \/ \E d \in Dispatchers, c \in clients : CallSucceeds(d, c)
    \/ \E d \in Dispatchers : DispatchAdvance(d)
    \/ \E giftId \in ButtonIds, quantity \in 0..MaxQuantity :
          ManualPurchase(giftId, quantity)

SpecControl == InitControl /\ [][NextControl]_vars

\* the timer alone under one configuration, with a service that refuses
\* some calls
NextFaulty ==
    \/ Tick
    \/ PollSkipInFlight
    \/ PollSkipInterval
    \/ PollStart
    \/ FetchThrows
    \/ \E snap \in ControlSnapshots : FetchReturns(snap)
    \/ \E d \in Dispatchers, c \in clients : CallSucceeds(d, c)
    \/ \E d \in Dispatchers, c \in clients, err \in Errors : CallFails(d, c, err)
    \/ \E d \in Dispatchers, c \in clients : BackoffDone(d, c)
    \/ \E d \in Dispatchers : DispatchAdvance(d)

SpecFaulty == InitControl /\ [][NextFaulty]_vars

\* the timer and refused calls again, with and without a forced test gift
InitRepeat ==
    /\ config \in { c \in Configs : /\ c.maxGiftSupply = 1000
                                     /\ c.maxGiftsToBuy = 1
                                     /\ c.autoBuyEnabled }
    /\ clients = 1..NumClients
    /\ clientsMap = clients
    /\ now = CheckIntervalMs
    /\ failBudget = MaxFailures
    /\ InitService

SpecRepeat == InitRepeat /\ [][NextFaulty]_vars

\* the timer, the poll and its purchases, and a shutdown at any moment
NextShutdown ==
    \/ ~app.exited /\ Tick
    \/ TimerFires /\ PollSkipInFlight
    \/ TimerFires /\ PollSkipInterval
    \/ TimerFires /\ PollStart
    \/ ~app.exited /\ FetchThrows
    \/ ~app.exited /\ \E snap \in ControlSnapshots : FetchReturns(snap)
    \/ ~app.exited /\ \E d \in Dispatchers, c \in clients : CallSucceeds(d, c)
    \/ ~app.exited /\ \E d \in Dispatchers, c \in clients, err \in Errors :
                          CallFails(d, c, err)
    \/ ~app.exited /\ \E d \in Dispatchers, c \in clients : BackoffDone(d, c)
    \/ ~app.exited /\ \E d \in Dispatchers : DispatchAdvance(d)
    \/ Stop
    \/ DisconnectNext
    \/ Exit

SpecShutdown == InitControl /\ [][NextShutdown]_vars

\* one client, a service that may refuse any number of calls
InitLive ==
    /\ config \in { c \in Configs : /\ c.maxGiftSupply = 1000
                                     /\ c.autoBuyEnabled
                                     /\ c.testGiftId = <<>> }
    /\ clients = LiveClients
    /\ clientsMap = clients
    /\ now = CheckIntervalMs
    /\ failBudget = NoLimit
    /\ InitService

\* sendStarGift of client c returns, one way or the other
CallReturns(d, c) ==
    \/ CallSucceeds(d, c)
    \/ \E err \in Errors : CallFails(d, c, err)

\* what the runtime and the premise "every purchase call returns" give: a
\* pending call returns, a sleep ends, a settled Promise.allSettled resumes
\* its caller; nothing is assumed of the timer or of getStarGiftOptions
Fairness ==
    /\ \A d \in Dispatchers, c \in LiveClients :
          /\ WF_vars(CallReturns(d, c))
          /\ WF_vars(BackoffDone(d, c))
    /\ \A d \in Dispatchers : WF_vars(DispatchAdvance(d))

\* the catalogue first lists one gift, later a second one as well
LiveSnapshots == { <<Gift(1, 0)>>, <<Gift(1, 0), Gift(2, 0)>> }

NextLive ==
    \/ Tick
    \/ PollSkipInFlight
    \/ PollSkipInterval
    \/ PollStart
    \/ FetchThrows
    \/ \E snap \in LiveSnapshots : FetchReturns(snap)
    \/ \E d \in Dispatchers, c \in clients : CallReturns(d, c)
    \/ \E d \in Dispatchers, c \in clients : BackoffDone(d, c)
    \/ \E d \in Dispatchers : DispatchAdvance(d)

SpecLive == InitLive /\ [][NextLive]_vars /\ Fairness

\* the poll, its purchases, and the notifications it has started, each of
\* which may settle at any time, fail at any time, or stay pending
NextNotify ==
    \/ Tick
    \/ PollSkipInFlight
    \/ PollSkipInterval
    \/ PollStart
    \/ FetchThrows
    \/ \E snap \in ControlSnapshots : FetchReturns(snap)
    \/ \E d \in Dispatchers, c \in clients : CallSucceeds(d, c)
    \/ \E d \in Dispatchers : DispatchAdvance(d)
    \/ \E id \in IdStrings : NotifyDone(id)
    \/ \E id \in IdStrings : NotifyFails(id)

SpecNotify == InitControl /\ [][NextNotify]_vars

\* ================================================================ claims
GiftOf(snap, id) == CHOOSE g \in SeqRange(snap) : IdToString(g.id) = id

HasTotal(gift) == gift.availability # <<>> /\ gift.availability[1].total > 0

\* C1: at most one poll cycle is active at any time, and an invocation made
\* while a cycle is in flight (also while it awaits its dispatch) changes
\* nothing: no fetch, no cache change, no discovery, no purchase call.
C1_OnePollInFlight ==
    /\ [](activePolls <= 1 /\ (isCheckingGifts <=> activePolls = 1))
    /\ [][ (isCheckingGifts /\ ~dropped /\ dropped') =>
             UNCHANGED << serviceVars, pollVars, dispatch, task, histVars >> ]_vars

\* C1 witness: an invocation was dropped while the cycle awaits its dispatch
C1_DroppedWhileDispatching ==
    /\ dropped
    /\ pollPc = "dispatching"
    /\ \E c \in clients : task["auto"][c].pc = "calling"

\* C2: after a baseline poll of S1 (also an empty one) and a poll of
\* S2 = S1 plus one item X, exactly {X} was reported as newly discovered and
\* X is in the detail map as S2 has it.  (Stated without a forced test id.)
C2_AddedItemDiscovered ==
    ( /\ config.testGiftId = <<>>
      /\ cycle.rel = "plusOne"
      /\ cycle.prevKind = "baseline" )
    => /\ SnapIds(report.discovered) = SeqRange(cycle.added)
       /\ cycle.added[1] \in DOMAIN giftsMap
       /\ giftsMap[cycle.added[1]] = GiftOf(cycle.snap, cycle.added[1])

\* C3 as claimed: when two consecutive cycles see the same snapshot, the
\* second reports nothing, with a forced test id configured too.
C3_SecondPollSilent ==
    cycle.rel = "same" => report.discovered = <<>>

\* C3 as amended: when two consecutive cycles see the same snapshot, the
\* second reports nothing, except the forced test gift when a test id is
\* configured, is in the snapshot and had not been processed before.
C3_SecondPollSilentButTestGift ==
    cycle.rel = "same" =>
        \/ report.discovered = <<>>
        \/ /\ config.testGiftId # <<>>
           /\ ~cycle.processedBefore
           /\ Len(report.discovered) = 1
           /\ IdToString(report.discovered[1].id) = config.testGiftId

\* C3 witness: the same snapshot twice, with the test gift in it and
\* processed before: nothing is reported
C3_SameSnapshotAfterTestGift ==
    /\ cycle.rel = "same"
    /\ cycle.kind = "incremental"
    /\ cycle.processedBefore
    /\ config.testGiftId \in SnapIds(cycle.snap)
    /\ report.discovered = <<>>

\* C4: the forced test gift is reported in exactly one cycle: in none before
\* it is marked processed, in one once an incremental poll has seen it, and
\* never again.
C4_TestGiftOnce ==
    config.testGiftId # <<>> =>
        /\ discoveries[config.testGiftId] <= 1
        /\ testGiftProcessed <=> discoveries[config.testGiftId] = 1
        /\ ( cycle.kind = "incremental"
             /\ config.testGiftId \in SnapIds(cycle.snap) )
           => discoveries[config.testGiftId] = 1

\* C4 witness: the test gift was cached by the baseline, reported once, and
\* a later poll that still has it reports nothing
C4_TestGiftSeenAgain ==
    /\ config.testGiftId # <<>>
    /\ cycle.kind = "incremental"
    /\ cycle.processedBefore
    /\ config.testGiftId \in SnapIds(cycle.snap)
    /\ discoveries[config.testGiftId] = 1
    /\ report.discovered = <<>>

\* C5: a cycle that finds the known set empty caches every gift of the
\* snapshot in the set and in the map, reports nothing and starts no
\* purchase, whatever the configuration.
C5_BaselineSilent ==
    cycle.kind = "baseline" =>
        /\ \A k \in 1..Len(cycle.snap) :
              LET id == IdToString(cycle.snap[k].id)
              IN  /\ id \in giftIdsCache
                  /\ id \in DOMAIN giftsMap
                  /\ giftsMap[id] = cycle.snap[k]
        /\ report = NoReport
        /\ \A id \in IdStrings : discoveries[id] = 0
        /\ ~dispatch["auto"].active
        /\ \A c \in clients : task["auto"][c].calls = 0

\* C5 witness: a baseline with auto-buy on, the test gift and a low-supply
\* gift in the snapshot
C5_BaselineWithTargets ==
    /\ cycle.kind = "baseline"
    /\ config.autoBuyEnabled
    /\ config.testGiftId \in SnapIds(cycle.snap)
    /\ \E k \in 1..Len(cycle.snap) : IsLowSupply(cycle.snap[k])
    /\ pollPc = "idle"

\* C6: no gift whose total is absent, null or 0 is ever selected for automatic
\* purchase, whatever the ceiling.
C6_UnlimitedNeverSelected ==
    \A k \in 1..Len(report.dispatched) : HasTotal(report.dispatched[k])

\* C7: with auto-buy on, a newly discovered gift with a declared total is
\* selected exactly when its total is at most the ceiling.
C7_SelectedIffWithinCeiling ==
    (cycle.kind = "incremental" /\ config.autoBuyEnabled) =>
        \A k \in 1..Len(report.discovered) :
            LET g == report.discovered[k]
            IN  HasTotal(g) =>
                    ( g \in SeqRange(report.dispatched)
                      <=> g.availability[1].total <= config.maxGiftSupply )

\* C7 witness: total 500 and total 1000 are both selected with ceiling 1000
C7_BoundarySelected ==
    /\ cycle.kind = "incremental"
    /\ config.autoBuyEnabled
    /\ config.maxGiftSupply = 1000
    /\ \E g \in SeqRange(report.dispatched) :
          HasTotal(g) /\ g.availability[1].total = config.maxGiftSupply
    /\ \E g \in SeqRange(report.dispatched) :
          HasTotal(g) /\ g.availability[1].total = 500

\* C8: the selected gifts are purchased in ascending order of total: no call
\* for a gift is issued after a call for a gift of larger total.
C8_AscendingDispatch ==
    LET called == dispatch["auto"].called
        gifts == dispatch["auto"].gifts
    IN  /\ Len(called) <= Len(gifts)
        /\ \A i, j \in 1..Len(called) :
              /\ called[i] = gifts[i].id
              /\ (i < j /\ HasTotal(gifts[i]) /\ HasTotal(gifts[j]))
                 => gifts[i].availability[1].total <= gifts[j].availability[1].total

\* C8 witness: the snapshot listed the larger total first, and the calls for
\* the smaller total were issued first
C8_ReorderedDispatch ==
    /\ Len(dispatch["auto"].called) = 2
    /\ Len(cycle.snap) >= 2
    /\ cycle.snap[1].id = dispatch["auto"].called[2]
    /\ cycle.snap[2].id = dispatch["auto"].called[1]
    /\ HasTotal(dispatch["auto"].gifts[1])
    /\ HasTotal(dispatch["auto"].gifts[2])
    /\ \E c \in clients : task["auto"][c].pc = "calling"

\* C9: once a call of a client fails with a terminal error, the client issues
\* no further call for that gift in that dispatch, whatever quantity remains;
\* a terminal error on the first call leaves exactly one call.
C9_TerminalStops ==
    \A d \in Dispatchers, c \in clients :
        task[d][c].terminalAt > 0 =>
            /\ task[d][c].calls = task[d][c].terminalAt
            /\ task[d][c].pc = "done"

\* C9 witness: a terminal error on the first of two units
C9_TerminalOnFirstCall ==
    \E d \in Dispatchers, c \in clients :
        /\ task[d][c].terminalAt = 1
        /\ task[d][c].calls = 1
        /\ task[d][c].pc = "done"
        /\ Quantity(d) = 2

\* C10 as claimed: the summary's success count is the number of calls that
\* succeeded and its failure count the number of calls that failed.
C10_SummaryCountsCalls ==
    \A d \in Dispatchers, c \in clients :
        task[d][c].pc = "done" =>
            /\ task[d][c].summary[1].successCount = task[d][c].okCalls
            /\ task[d][c].summary[1].failureCount = task[d][c].failedCalls

\* C10 as amended: the summary counts units: its success count is the number
\* of calls that succeeded, its failure count the number of units that ended
\* without a success (a terminal error, or MaxAttempts failed calls); a
\* failed call that is retried is not counted.
C10_SummaryCountsUnits ==
    \A d \in Dispatchers, c \in clients :
        task[d][c].pc = "done" =>
            /\ Len(task[d][c].summary) = 1
            /\ task[d][c].summary[1].successCount = task[d][c].okCalls
            /\ task[d][c].summary[1].failureCount = task[d][c].lostUnits
            /\ task[d][c].calls = task[d][c].okCalls + task[d][c].failedCalls

\* C10 witness: two retryable failures, then a success: 1 success, 0 failures
C10_TwoRetriesThenSuccess ==
    \E d \in Dispatchers, c \in clients :
        /\ task[d][c].pc = "done"
        /\ task[d][c].okCalls = 1
        /\ task[d][c].failedCalls = 2
        /\ task[d][c].summary = <<[successCount |-> 1, failureCount |-> 0]>>

\* C11 as claimed: a client issues at most MaxAttempts calls for one gift of
\* one dispatch, successes and failures together, whatever the quantity.
C11_CallsWithinCeiling ==
    \A d \in Dispatchers, c \in clients : task[d][c].calls <= MaxAttempts

\* C11 as amended: the ceiling bounds the calls of one unit: a client issues
\* at most MaxAttempts calls for each unit, hence at most quantity times
\* MaxAttempts calls for one gift of one dispatch.
C11_CallsWithinCeilingPerUnit ==
    \A d \in Dispatchers, c \in clients :
        /\ task[d][c].attempt <= MaxAttempts
        /\ task[d][c].i <= Quantity(d)
        /\ task[d][c].calls <= Quantity(d) * MaxAttempts

\* C11 witness: two units, every call refused with a retryable error
C11_EveryUnitExhausted ==
    \E d \in Dispatchers, c \in clients :
        /\ task[d][c].pc = "done"
        /\ Quantity(d) >= 2
        /\ task[d][c].calls = Quantity(d) * MaxAttempts
        /\ task[d][c].okCalls = 0

\* C12: purchaseGiftsWithAllClients returns only when the task of every
\* client for the last gift of the list has finished, in whatever order the
\* tasks finish.
C12_ResolvesAfterAllSettled ==
    [][ \A d \in Dispatchers :
          (dispatch[d].active /\ ~dispatch'[d].active) =>
              /\ dispatch[d].idx = Len(dispatch[d].gifts)
              /\ \A c \in clients : task[d][c].pc = "done" ]_vars

\* C12 witness: the last client of the pool has finished the last gift, the
\* first is still calling, and the call has not returned
C12_LastFinishedFirst ==
    \E d \in Dispatchers :
        /\ dispatch[d].active
        /\ dispatch[d].idx = Len(dispatch[d].gifts)
        /\ task[d][NumClients].pc = "done"
        /\ task[d][1].pc = "calling"

\* C13: the gifts of one dispatch are processed one at a time: the first
\* calls for the next gift of the list are issued only when the task of
\* every client for the current gift has finished, and a call is only ever
\* issued for the current gift.
C13_OneGiftAtATime ==
    [][ \A d \in Dispatchers :
          /\ (dispatch[d].active /\ dispatch'[d].active
                 /\ dispatch'[d].idx # dispatch[d].idx) =>
                 /\ dispatch'[d].idx = dispatch[d].idx + 1
                 /\ \A c \in clients : task[d][c].pc = "done"
          /\ \A c \in clients :
                 task'[d][c].calls > task[d][c].calls =>
                     /\ dispatch'[d].active
                     /\ Len(dispatch'[d].called) = dispatch'[d].idx ]_vars

\* C13 witness: the second gift of the list has just been started: every
\* client has its first call for it outstanding
C13_SecondGiftStarted ==
    \E d \in Dispatchers :
        /\ dispatch[d].active
        /\ dispatch[d].idx = 2
        /\ dispatch[d].called = <<dispatch[d].gifts[1].id, dispatch[d].gifts[2].id>>
        /\ \A c \in clients : task[d][c].pc = "calling" /\ task[d][c].calls = 1

C15_OneCallPerClient ==
    \A c \in clients :
        ~(task["auto"][c].pc = "calling" /\ task["manual"][c].pc = "calling")

\* C16: a purchase button for a gift id that is not in giftsMap issues no
\* call on any client and starts no dispatch, whatever the quantity.
C16_UnknownIdNoCall ==
    /\ [] ( (request.outcome # "none" /\ ~request.known) =>
              /\ request.outcome = "returned"
              /\ ~dispatch["manual"].active )
    /\ [][ (request' # request /\ ~request'.known) =>
              (task' = task /\ dispatch' = dispatch) ]_vars

\* C16 witness: after the baseline has cached some gifts, a button for a
\* gift not among them was pressed with a quantity, and no client has ever
\* called for the controller
C16_UnknownIdPressed ==
    /\ giftIdsCache # {}
    /\ request.outcome = "returned"
    /\ ~request.known
    /\ request.giftId \notin DOMAIN giftsMap
    /\ request.quantity = MaxQuantity
    /\ \A c \in clients : task["manual"][c].calls = 0

\* C17: a purchase button for a gift id that is not in giftsMap ends with an
\* outcome the controller can tell from a purchase: it does not reply that
\* the purchase was started.
C17_UnknownIdNotReportedStarted ==
    (request.outcome = "returned" /\ ~request.known)
        => request.reply # "started"

\* C18: a cycle whose fetch throws ends cleanly: from its start to its end
\* the known ids, the gifts map, the processed flag, the discoveries and the
\* poll's dispatch stay as they were, and at its end the guard is released
\* and nothing is reported.
C18_FailedFetchEndsCleanly ==
    [][ /\ (pollPc = "fetching" /\ (pollPc' = "fetching" \/ cycle'.kind = "failed"))
            => /\ UNCHANGED << serviceVars, discoveries >>
               /\ task'["auto"] = task["auto"]
               /\ dispatch'["auto"] = dispatch["auto"]
        /\ (pollPc = "fetching" /\ pollPc' = "idle" /\ cycle'.kind = "failed")
            => /\ ~isCheckingGifts'
               /\ activePolls' = 0
               /\ report' = NoReport ]_vars

\* C18 witness: after a baseline and an incremental poll, a fetch has thrown
\* and the cycle has ended
C18_FetchFailedAfterPolls ==
    /\ cycle.kind = "failed"
    /\ cycle.prevKind = "incremental"
    /\ giftIdsCache # {}
    /\ pollPc = "idle"
    /\ ~isCheckingGifts

\* C19: whatever the fetch or the purchase calls throw, the cycle ends with
\* the guard released, and an invocation at least one interval after the
\* cycle's start begins a new cycle instead of returning at once.
C19_PollSurvivesFailures ==
    /\ [] ( pollPc = "idle" =>
              /\ ~isCheckingGifts
              /\ activePolls = 0
              /\ now - lastCheckTime >= config.checkIntervalMs =>
                    /\ ENABLED PollStart
                    /\ ~ENABLED PollSkipInFlight )
    /\ [][ (pollPc # "idle" /\ pollPc' = "idle") => ~isCheckingGifts' ]_vars

\* C19 witness: the poll's dispatch ended with a client stopped by a terminal
\* error, and the next invocation, one interval later, has begun a new cycle
C19_NewCycleAfterFailedPurchase ==
    /\ pollPc = "fetching"
    /\ lastCheckTime = now
    /\ ~dispatch["auto"].active
    /\ \E c \in clients :
          /\ task["auto"][c].pc = "done"
          /\ task["auto"][c].terminalAt > 0
          /\ task["auto"][c].okCalls = 0

\* C20: the set of known ids only grows: every step leaves it a superset of
\* what it was, also when a gift is missing from a later snapshot.
C20_KnownIdsGrow ==
    [][ giftIdsCache \subseteq giftIdsCache' ]_vars

\* C20 witness: an incremental poll whose snapshot misses a known gift,
\* after a purchase button has been served
C20_KnownIdMissingFromSnapshot ==
    /\ cycle.kind = "incremental"
    /\ \E id \in giftIdsCache : id \notin SnapIds(cycle.snap)
    /\ request.known
    /\ request.outcome = "returned"
    /\ pollPc = "idle"

\* C21: in the poll's dispatch no client completes more purchases of a gift
\* than config.maxGiftsToBuy, and in a dispatch of a purchase button with
\* quantity q > 0 no client completes more than q.
C21_UnitsWithinMaximum ==
    \A c \in clients :
        /\ task["auto"][c].okCalls <= config.maxGiftsToBuy
        /\ dispatch["manual"].quantity > 0 =>
               task["manual"][c].okCalls <= dispatch["manual"].quantity

\* C21 witness: a client has bought the configured two units for the poll,
\* and one unit for a button with quantity 1
C21_MaximumReached ==
    \E c \in clients :
        /\ config.maxGiftsToBuy = MaxQuantity
        /\ task["auto"][c].pc = "done"
        /\ task["auto"][c].okCalls = config.maxGiftsToBuy
        /\ dispatch["manual"].quantity = 1
        /\ task["manual"][c].pc = "done"
        /\ task["manual"][c].okCalls = 1

\* C22: a dispatch with quantity 0 (the button Buy All) buys until a terminal
\* error or exhausted retries stop the client: a task of such a dispatch
\* ends only with a unit lost.
C22_BuyAllUntilStopped ==
    \A c \in clients :
        ( /\ request.known
          /\ request.quantity = 0
          /\ dispatch["manual"].quantity = 0
          /\ task["manual"][c].pc = "done" )
        => task["manual"][c].lostUnits > 0

\* C23: the continuation of an incremental cycle records a discovery for
\* every gift of the snapshot that is new (its id is not known, or it is the
\* forced test gift not yet processed) and for no other, whether or not the
\* gift is selected and whether or not auto-buy is on.
C23_EveryNewGiftDiscovered ==
    [][ (pollPc = "fetching" /\ pollPc' # "fetching" /\ cycle'.kind = "incremental")
        => \A k \in 1..Len(cycle'.snap) :
              LET g == cycle'.snap[k]
                  id == IdToString(g.id)
                  isNew == \/ id \notin giftIdsCache
                           \/ /\ config.testGiftId # <<>>
                              /\ id = config.testGiftId
                              /\ ~testGiftProcessed
              IN  IF isNew
                  THEN /\ g \in SeqRange(report'.discovered)
                       /\ discoveries'[id] = discoveries[id] + 1
                       /\ notify'[id] = "pending"
                  ELSE /\ g \notin SeqRange(report'.discovered)
                       /\ discoveries'[id] = discoveries[id] ]_vars

\* C23 witness: with auto-buy off and ceiling 100, an incremental poll has
\* found two new gifts, none of which the policy selects
C23_DiscoveredButNotSelected ==
    /\ cycle.kind = "incremental"
    /\ ~config.autoBuyEnabled
    /\ config.maxGiftSupply = 100
    /\ Len(report.discovered) >= 2
    /\ \A k \in 1..Len(report.discovered) :
          /\ ~IsLowSupply(report.discovered[k])
          /\ discoveries[IdToString(report.discovered[k].id)] = 1

\* C25: a client has calls for the poll only if auto-buy is on and the
\* poll's dispatch was given gifts, all new and all within the ceiling; with
\* auto-buy off no poll starts a dispatch, and the new gifts are cached all
\* the same.
C25_PollBuysOnlySelected ==
    /\ \A c \in clients :
          task["auto"][c].calls > 0 =>
              /\ config.autoBuyEnabled
              /\ Len(dispatch["auto"].gifts) > 0
              /\ \A k \in 1..Len(dispatch["auto"].gifts) :
                    IsLowSupply(dispatch["auto"].gifts[k])
    /\ pollPc = "dispatching" =>
          /\ report.dispatched = dispatch["auto"].gifts
          /\ SeqRange(report.dispatched) \subseteq SeqRange(report.discovered)
    /\ ~config.autoBuyEnabled =>
          /\ ~dispatch["auto"].active
          /\ pollPc # "dispatching"
          /\ report.dispatched = <<>>
          /\ cycle.kind = "incremental" => SnapIds(cycle.snap) \subseteq giftIdsCache

\* C25 witness: with auto-buy off, an incremental poll has found and cached
\* a gift within the ceiling, and no client has called
C25_AutoBuyOffNothingBought ==
    /\ ~config.autoBuyEnabled
    /\ cycle.kind = "incremental"
    /\ pollPc = "idle"
    /\ \E k \in 1..Len(report.discovered) :
          /\ IsLowSupply(report.discovered[k])
          /\ IdToString(report.discovered[k].id) \in giftIdsCache
    /\ \A c \in clients : task["auto"][c].calls = 0

\* C26: while less than the interval has passed since the last start no
\* invocation can begin a cycle; a cycle begins only when at least the
\* interval has passed, its start time is recorded at once, and nothing else
\* ever changes the recorded time, so a cycle that fails keeps it.
C26_StartsAtLeastIntervalApart ==
    /\ [] ( now - lastCheckTime < config.checkIntervalMs => ~ENABLED PollStart )
    /\ [][ /\ (pollPc = "idle" /\ pollPc' = "fetching")
              => /\ now - lastCheckTime >= config.checkIntervalMs
                 /\ lastCheckTime' = now
           /\ lastCheckTime' # lastCheckTime
              => (pollPc = "idle" /\ pollPc' = "fetching") ]_vars

\* C26 witness: a cycle that began after the clock had advanced has failed
\* at once; its start time stands and holds the next invocation back
C26_FailedCycleHoldsNextBack ==
    /\ cycle.kind = "failed"
    /\ pollPc = "idle"
    /\ ~isCheckingGifts
    /\ now > CheckIntervalMs
    /\ lastCheckTime = now
    /\ ENABLED PollSkipInterval

\* C27: giftIdsCache, giftsMap and testGiftProcessed change only in the
\* continuation of a poll cycle that holds isCheckingGifts; the steps of the
\* poll's dispatch, of a button press (id cached or not) and of every
\* client's purchase leave the three as they are.
C27_OnlyThePollWritesTheCache ==
    [][ ( \/ giftIdsCache' # giftIdsCache
          \/ giftsMap' # giftsMap
          \/ testGiftProcessed' # testGiftProcessed )
        => /\ pollPc = "fetching"
           /\ isCheckingGifts
           /\ pollPc' # "fetching"
           /\ request' = request
           /\ task["manual"]' = task["manual"]
           /\ dispatch["manual"]' = dispatch["manual"] ]_vars

\* C27 witness: clients have bought for the poll and for a button, a press
\* with an uncached id has been answered, and the cache holds exactly the
\* ids the polls have seen
C27_CacheIntactAfterPurchases ==
    /\ giftIdsCache # {}
    /\ giftIdsCache = DOMAIN giftsMap
    /\ giftIdsCache = SnapIds(cycle.snap)
    /\ request.giftId \notin giftIdsCache
    /\ request.reply = "started"
    /\ \E c \in clients : task["manual"][c].okCalls > 0
    /\ \E c \in clients : task["auto"][c].okCalls > 0

\* C29: a task that has called has no summary while it runs and exactly one
\* when it has ended, however it ended; the summary is logged in the step
\* that handles the outcome of a call, and once it is logged the task issues
\* no further call.
C29_OneSummaryAfterLastCall ==
    /\ [] ( \A d \in Dispatchers, c \in clients :
              /\ task[d][c].pc \in {"calling", "backoff"} => task[d][c].summary = <<>>
              /\ (task[d][c].pc = "done" /\ task[d][c].calls > 0)
                     => Len(task[d][c].summary) = 1 )
    /\ [][ \A d \in Dispatchers, c \in clients :
             /\ (task[d][c].summary = <<>> /\ task'[d][c].summary # <<>>)
                   => /\ task[d][c].pc = "calling"
                      /\ task'[d][c].pc = "done"
                      /\ task'[d][c].calls = task[d][c].calls
             /\ (task[d][c].summary # <<>> /\ task'[d][c].summary # <<>>)
                   => task'[d][c] = task[d][c] ]_vars

\* C29 witness: of two units the first was given up after MaxAttempts failed
\* calls and the second succeeded: one summary, after 51 calls
C29_SummaryAfterExhaustedUnit ==
    \E d \in Dispatchers, c \in clients :
        /\ task[d][c].pc = "done"
        /\ task[d][c].terminalAt = 0
        /\ task[d][c].calls = MaxAttempts + 1
        /\ task[d][c].summary = <<[successCount |-> 1, failureCount |-> 1]>>

\* C30: a task none of whose calls has failed has at most one call
\* outstanding, never more calls than the quantity purchaseGift was given,
\* and ends after exactly that many calls with a summary of that many
\* successes and no failure.
C30_AllSucceedBuysQuantity ==
    \A d \in Dispatchers, c \in clients :
        LET t == task[d][c]
            quantity == IF dispatch[d].quantity > 0 THEN dispatch[d].quantity
                        ELSE config.maxGiftsToBuy
        IN  (t.failedCalls = 0 /\ t.pc # "idle") =>
                /\ t.calls <= quantity
                /\ t.pc = "calling" => t.calls = t.okCalls + 1
                /\ t.pc = "done" =>
                      /\ t.calls = quantity
                      /\ t.okCalls = quantity
                      /\ t.summary = <<[successCount |-> quantity,
                                        failureCount |-> 0]>>

\* C30 witness: a task of quantity two has ended after two calls, both
\* successful
C30_TwoUnitsBought ==
    \E d \in Dispatchers, c \in clients :
        /\ dispatch[d].quantity = MaxQuantity
        /\ task[d][c].pc = "done"
        /\ task[d][c].failedCalls = 0
        /\ task[d][c].calls = MaxQuantity
        /\ task[d][c].summary = <<[successCount |-> MaxQuantity, failureCount |-> 0]>>

\* C24: a step in which a notification settles or fails changes nothing of
\* the poll, the cache, the dispatch or the clients' tasks; whatever the
\* notifications' states, an incremental poll caches every gift of its
\* snapshot and hands the dispatcher what it selected, a dispatch whose
\* tasks have all ended can return, and a cycle that has ended has released
\* the guard.
C24_NotificationDecoupled ==
    /\ [][ \A id \in IdStrings :
             (notify[id] = "pending" /\ notify'[id] \in {"sent", "failed"})
             => UNCHANGED << serviceVars, pollVars, dispatch, task,
                             cycle, report, discoveries >> ]_vars
    /\ [][ (pollPc = "fetching" /\ pollPc' # "fetching" /\ cycle'.kind = "incremental")
           => /\ SnapIds(cycle'.snap) \subseteq giftIdsCache'
              /\ SnapIds(report'.discovered) = SnapIds(cycle'.snap) \ giftIdsCache
              /\ report'.dispatched # <<>> =>
                    /\ pollPc' = "dispatching"
                    /\ dispatch'["auto"].active
                    /\ dispatch'["auto"].gifts = report'.dispatched ]_vars
    /\ [] ( /\ (dispatch["auto"].active /\ \A c \in clients : task["auto"][c].pc = "done")
                => ENABLED DispatchAdvance("auto")
            /\ pollPc = "idle" => ~isCheckingGifts )

\* C24 witness: an incremental poll found two gifts; the notification of
\* one has failed and that of the other is still pending, yet both are
\* cached, both were bought by every client, and the cycle has ended with
\* the guard released
C24_CycleDoneNotificationsNot ==
    /\ cycle.kind = "incremental"
    /\ pollPc = "idle"
    /\ ~isCheckingGifts
    /\ Len(report.discovered) = 2
    /\ report.dispatched = report.discovered
    /\ SnapIds(report.discovered) \subseteq giftIdsCache
    /\ notify[IdToString(report.discovered[1].id)] = "failed"
    /\ notify[IdToString(report.discovered[2].id)] = "pending"
    /\ ~dispatch["auto"].active
    /\ dispatch["auto"].idx = 2
    /\ \A c \in clients : task["auto"][c].okCalls > 0

\* C28: a client the lookups do not know makes no call and logs no summary;
\* its task ends at once, while in the same dispatch every client the
\* lookups know makes its first call, ends only by the outcome of its own
\* calls with its own summary, and the dispatch goes on to the next gift
\* only when those clients have ended.
C28_UnmappedClientConfined ==
    /\ [] ( \A d \in Dispatchers, c \in clients :
              IF c \in clientsMap
              THEN /\ dispatch[d].active => task[d][c].calls >= 1
                   /\ task[d][c].pc = "done" =>
                         /\ Len(task[d][c].summary) = 1
                         /\ task[d][c].summary[1].successCount = task[d][c].okCalls
                         /\ \/ task[d][c].i = Quantity(d)
                            \/ task[d][c].terminalAt = task[d][c].calls
              ELSE /\ task[d][c].calls = 0
                   /\ task[d][c].summary = <<>>
                   /\ task[d][c].pc \in {"idle", "done"} )
    /\ [][ \A d \in Dispatchers :
             (dispatch[d].active /\ dispatch'[d] # dispatch[d])
             => \A c \in clientsMap : task[d][c].pc = "done" ]_vars

\* C28 witness: of two clients the lookups know one; the dispatch has gone
\* through both gifts, the unknown client without a call, the known one
\* buying the whole quantity of the second gift
C28_OtherClientBought ==
    \E c \in clients, k \in clients :
        /\ c \notin clientsMap
        /\ k \in clientsMap
        /\ ~dispatch["manual"].active
        /\ Len(dispatch["manual"].called) = 2
        /\ dispatch["manual"].quantity = MaxQuantity
        /\ task["manual"][c].pc = "done"
        /\ task["manual"][c].calls = 0
        /\ task["manual"][k].pc = "done"
        /\ task["manual"][k].okCalls = MaxQuantity

\* C31: the poll hands a gift to purchaseGiftsWithAllClients only if the
\* gift was never discovered before, and in the step that hands it over the
\* gift is counted as discovered and its id is in giftIdsCache; discovery
\* counts never decrease, so no id is handed over by two cycles, the forced
\* test id included, whatever became of the first dispatch.
C31_HandedToDispatchOnce ==
    /\ [][ (~dispatch["auto"].active /\ dispatch'["auto"].active)
           => \A k \in 1..Len(dispatch'["auto"].gifts) :
                 LET id == IdToString(dispatch'["auto"].gifts[k].id)
                 IN  /\ discoveries[id] = 0
                     /\ discoveries'[id] = 1
                     /\ id \in giftIdsCache' ]_vars
    /\ [][ \A id \in IdStrings : discoveries'[id] >= discoveries[id] ]_vars

\* C31 witness: the forced test gift was handed over once and every client
\* was refused with a terminal error; a later poll has seen the gift again
\* and has handed nothing over
C31_FailedDispatchNotRepeated ==
    /\ config.testGiftId # <<>>
    /\ testGiftProcessed
    /\ discoveries[config.testGiftId] = 1
    /\ pollPc = "idle"
    /\ cycle.kind = "incremental"
    /\ cycle.prevKind = "incremental"
    /\ report.dispatched = <<>>
    /\ config.testGiftId \in SnapIds(cycle.snap)
    /\ config.testGiftId \in SnapIds(dispatch["auto"].gifts)
    /\ \A c \in clients :
          /\ task["auto"][c].terminalAt > 0
          /\ task["auto"][c].okCalls = 0

\* C32: the ids of giftIdsCache are exactly the keys of giftsMap, each key
\* holds a gift of that id, and so purchaseGiftsWithAllClients resolves
\* every id that is known or was ever discovered to one gift of that id.
C32_KnownIdsAreMapKeys ==
    /\ giftIdsCache = DOMAIN giftsMap
    /\ \A id \in IdStrings :
          (id \in giftIdsCache \/ discoveries[id] > 0) =>
              LET gifts == ResolveGifts([isArray |-> FALSE, giftId |-> id,
                                         gifts |-> <<>>])
              IN  /\ Len(gifts) = 1
                  /\ IdToString(gifts[1].id) = id

\* C32 witness: an id cached by the first run and an id discovered later
\* are both known; the button of the first was pressed and every client
\* bought
C32_BaselineIdBought ==
    /\ \E id \in giftIdsCache : discoveries[id] = 0
    /\ \E id \in giftIdsCache : discoveries[id] = 1
    /\ request.known
    /\ discoveries[request.giftId] = 0
    /\ dispatch["manual"].gifts = <<giftsMap[request.giftId]>>
    /\ \A c \in clients : task["manual"][c].okCalls > 0

\* C33: a poll whose fetch returns after an earlier poll has completed the
\* first-run branch or the incremental branch takes the incremental branch
\* and reports every gift of its snapshot whose id was not known.  (Stated
\* for the poll that directly follows the completed one.)
C33_BaselineOnlyOnce ==
    [][ ( /\ pollPc = "fetching"
          /\ pollPc' # "fetching"
          /\ cycle.kind \in {"baseline", "incremental"}
          /\ cycle'.kind \in {"baseline", "incremental"} )
        => /\ cycle'.kind = "incremental"
           /\ (SnapIds(cycle'.snap) \ giftIdsCache)
                 \subseteq SnapIds(report'.discovered) ]_vars

\* C34 as claimed: after a successful poll the giftsMap entry of every gift
\* of the snapshot is the snapshot's copy of the gift.
C34_EntriesEqualSnapshot ==
    cycle.kind \in {"baseline", "incremental"} =>
        \A k \in 1..Len(cycle.snap) :
            /\ IdToString(cycle.snap[k].id) \in DOMAIN giftsMap
            /\ giftsMap[IdToString(cycle.snap[k].id)] = cycle.snap[k]

\* C34 as amended: a successful poll sets the giftsMap entry of a gift of
\* its snapshot to the snapshot's copy only when the gift is new to that
\* poll (its id was not known, or it is the forced test gift not yet
\* processed); the entry of any other id stays as it was, and no other step
\* changes giftsMap.
C34_EntriesKeepDiscoveryCopy ==
    [][ IF /\ pollPc = "fetching"
           /\ pollPc' # "fetching"
           /\ cycle'.kind \in {"baseline", "incremental"}
        THEN /\ \A k \in 1..Len(cycle'.snap) :
                  LET g == cycle'.snap[k]
                      id == IdToString(g.id)
                      isNew == \/ id \notin giftIdsCache
                               \/ /\ config.testGiftId # <<>>
                                  /\ id = config.testGiftId
                                  /\ ~testGiftProcessed
                  IN  /\ id \in DOMAIN giftsMap'
                      /\ giftsMap'[id] = IF isNew THEN g ELSE giftsMap[id]
             /\ \A id \in DOMAIN giftsMap \ SnapIds(cycle'.snap) :
                  giftsMap'[id] = giftsMap[id]
        ELSE giftsMap' = giftsMap ]_vars

\* C34 witness: an incremental poll has stored a new gift, and its snapshot
\* lists a known gift with attributes that differ from the stored entry
C34_KnownEntryStale ==
    /\ cycle.kind = "incremental"
    /\ \E k \in 1..Len(report.discovered) :
          giftsMap[IdToString(report.discovered[k].id)] = report.discovered[k]
    /\ \E k \in 1..Len(cycle.snap) :
          /\ IdToString(cycle.snap[k].id) \in DOMAIN giftsMap
          /\ giftsMap[IdToString(cycle.snap[k].id)] # cycle.snap[k]

\* C35 as claimed: a client never makes more than quantity times MaxAttempts
\* calls for a gift, every task that has started ends, every dispatch ends,
\* and every poll cycle that has started releases the guard.
C35_EverythingTerminates ==
    /\ [] ( \A d \in Dispatchers, c \in LiveClients :
              task[d][c].calls <= Quantity(d) * MaxAttempts )
    /\ \A d \in Dispatchers, c \in LiveClients :
          (task[d][c].pc \in {"calling", "backoff"}) ~> (task[d][c].pc = "done")
    /\ \A d \in Dispatchers : dispatch[d].active ~> ~dispatch[d].active
    /\ isCheckingGifts ~> ~isCheckingGifts

\* C35 as amended: the same, but the guard is released by every poll cycle
\* whose getStarGiftOptions has returned; a cycle whose fetch never returns
\* holds the guard for ever.
C35_TerminatesOnceFetched ==
    /\ [] ( \A d \in Dispatchers, c \in LiveClients :
              task[d][c].calls <= Quantity(d) * MaxAttempts )
    /\ \A d \in Dispatchers, c \in LiveClients :
          (task[d][c].pc \in {"calling", "backoff"}) ~> (task[d][c].pc = "done")
    /\ \A d \in Dispatchers : dispatch[d].active ~> ~dispatch[d].active
    /\ (pollPc = "dispatching") ~> ~isCheckingGifts
    /\ [] ( isCheckingGifts => pollPc \in {"fetching", "dispatching"} )

\* C35 witness: the poll's dispatch has ended and the guard is released
\* after the client made MaxQuantity times MaxAttempts calls, all refused
C35_EndedAfterEveryRetry ==
    /\ pollPc = "idle"
    /\ ~isCheckingGifts
    /\ cycle.kind = "incremental"
    /\ ~dispatch["auto"].active
    /\ \E c \in LiveClients :
          /\ task["auto"][c].pc = "done"
          /\ task["auto"][c].calls = MaxQuantity * MaxAttempts
          /\ task["auto"][c].okCalls = 0

\* C36: within one dispatch a client has at most one call that was issued
\* and has not returned, and has one exactly while it awaits sendStarGift; a
\* call (a retry, the next unit, or the first call of the next gift) is
\* issued only in a step after which all earlier calls of the task have
\* returned.  Different clients may await their calls at the same time.
C36_OneCallOutstanding ==
    /\ [] ( \A d \in Dispatchers, c \in clients :
              LET t == task[d][c]
                  outstanding == t.calls - t.okCalls - t.failedCalls
              IN  /\ outstanding \in {0, 1}
                  /\ outstanding = 1 <=> t.pc = "calling" )
    /\ [][ \A d \in Dispatchers, c \in clients :
             (task'[d][c] # task[d][c] /\ task'[d][c].pc = "calling")
             => /\ task'[d][c].calls
                      = task'[d][c].okCalls + task'[d][c].failedCalls + 1
                /\ task[d][c].pc = "calling" =>
                      /\ task'[d][c].calls = task[d][c].calls + 1
                      /\ task'[d][c].okCalls + task'[d][c].failedCalls
                            = task[d][c].calls ]_vars

\* C36 witness: two clients await a call at the same time, one of them its
\* retry of the first unit, the other the call of its second unit
C36_CallsOfTwoClientsOverlap ==
    \E c \in clients, k \in clients :
        /\ c # k
        /\ task["auto"][c].pc = "calling"
        /\ task["auto"][c].attempt = 2
        /\ task["auto"][c].failedCalls = 1
        /\ task["auto"][k].pc = "calling"
        /\ task["auto"][k].i = 1
        /\ task["auto"][k].okCalls = 1

\* C37: a step in which the clock, the cycle's position and record, the
\* dispatches and the tasks all stay as they are (an invocation that returns
\* at once) leaves isCheckingGifts, lastCheckTime, giftIdsCache, giftsMap and
\* testGiftProcessed unchanged; the guard is released only by the step that
\* ends the cycle holding it, and is held at every position of a cycle.
C37_EarlyReturnChangesNothing ==
    /\ [][ ( /\ now' = now
             /\ pollPc' = pollPc
             /\ cycle' = cycle
             /\ dispatch' = dispatch
             /\ task' = task )
           => UNCHANGED << isCheckingGifts, lastCheckTime, giftIdsCache,
                           giftsMap, testGiftProcessed >> ]_vars
    /\ [][ (isCheckingGifts /\ ~isCheckingGifts')
           => (pollPc # "idle" /\ pollPc' = "idle") ]_vars
    /\ [] ( /\ pollPc # "idle" => isCheckingGifts
            /\ ENABLED PollSkipInFlight => pollPc # "idle"
            /\ ENABLED PollSkipInterval
                  => now - lastCheckTime < config.checkIntervalMs )

\* C37 witness: while a later cycle awaits its fetch, an invocation one tick
\* after its start has been turned away; the guard is still held and the
\* start time is still that of the cycle
C37_TurnedAwayDuringFetch ==
    /\ dropped
    /\ pollPc = "fetching"
    /\ isCheckingGifts
    /\ giftIdsCache # {}
    /\ lastCheckTime = now - 1

\* C39: every error is classified, as terminal exactly when its message
\* holds one of the four markers; a call refused with a terminal error ends
\* the task at once, and a call refused with any other error, one without
\* a message included, is followed by the sleep and a retry while the unit
\* has made fewer than MaxAttempts calls, and ends the unit at MaxAttempts.
C39_OnlyMarkersAreTerminal ==
    /\ [] ( \A err \in Errors :
              /\ ShouldStopRetrying(err) \in BOOLEAN
              /\ ShouldStopRetrying(err) <=>
                    \E k \in 1..Len(err) :
                        err[k] \in { "USAGE_LIMITED", "PREMIUM", "BALANCE_TOO_LOW",
                                     "is not found in local cache" } )
    /\ [][ \A d \in Dispatchers, c \in clients :
             LET t == task[d][c]
                 u == task'[d][c]
             IN  (t.pc = "calling" /\ u.failedCalls = t.failedCalls + 1) =>
                     IF u.terminalAt > 0
                     THEN /\ u.pc = "done"
                          /\ u.calls = t.calls
                     ELSE IF t.attempt < MaxAttempts
                          THEN /\ u.pc = "backoff"
                               /\ u.attempt = t.attempt
                               /\ u.failureCount = t.failureCount
                          ELSE /\ u.failureCount = t.failureCount + 1
                               /\ u.pc \in {"calling", "done"}
                               /\ u.pc = "calling" => u.attempt = 1 ]_vars
    /\ [][ \A d \in Dispatchers, c \in clients :
             (task[d][c].pc = "backoff" /\ task'[d][c] # task[d][c])
             => /\ task'[d][c].pc = "calling"
                /\ task'[d][c].attempt = task[d][c].attempt + 1
                /\ task'[d][c].calls = task[d][c].calls + 1 ]_vars

\* C39 witness: a unit has been given up after MaxAttempts calls that were
\* all refused without a terminal marker, and the client is on its next unit
C39_RetriedToTheCeiling ==
    \E d \in Dispatchers, c \in clients :
        /\ task[d][c].pc = "calling"
        /\ task[d][c].i = 1
        /\ task[d][c].attempt = 1
        /\ task[d][c].failedCalls = MaxAttempts
        /\ task[d][c].failureCount = 1
        /\ task[d][c].terminalAt = 0

\* C38: a poll cycle starts only while the application runs with its timer
\* set; a client is disconnected only when no poll cycle and no dispatch is
\* in flight; and no client issues a call once it has been disconnected.
C38_ShutdownWaitsForWork ==
    /\ [][ (pollPc = "idle" /\ pollPc' = "fetching")
           => (app.isRunning /\ app.checkInterval) ]_vars
    /\ [][ app'.disconnected # app.disconnected
           => /\ ~isCheckingGifts
              /\ \A d \in Dispatchers : ~dispatch[d].active ]_vars
    /\ [][ \A d \in Dispatchers, c \in clients :
             ( /\ task'[d][c].pc = "calling"
               /\ \/ task[d][c].pc # "calling"
                  \/ task'[d][c].calls # task[d][c].calls )
             => c \notin app.disconnected ]_vars

====
